---- MODULE Spec2Model ----
(***************************************************************************)
(* A model of the e-commerce analytics pipeline of lesson7_files:          *)
(*   data_loader.py       EcommerceDataLoader (load, merge, filter)        *)
(*   business_metrics.py  the aggregation functions                        *)
(*   dashboard.py         one run of the dashboard script                   *)
(*                                                                         *)
(* Conventions.                                                            *)
(*  - A cell of a table is an option: <<>> is a missing value (NaN, NaT,   *)
(*    None) and <<v>> is the value v.  A row is a record of cells.         *)
(*  - A DataFrame is a record [columns, index, rows, shares]: the column   *)
(*    names, the index labels, the rows in order, and the object whose     *)
(*    buffer it shares ("none" for a frame that owns its data).            *)
(*  - Money is counted in cents, so sums are exact; a mean or a ratio is   *)
(*    the exact fraction [num, den], and a percentage rounded to 2         *)
(*    decimals is counted in hundredths.                                   *)
(*  - Key columns of the CSV files are present in every row; a key may     *)
(*    dangle (name no row of the table it refers to) or be repeated.       *)
(***************************************************************************)
EXTENDS Integers, Sequences, FiniteSets, TLC

VARIABLES
    files,        \* the contents of the CSV files under data_path
    raw,          \* EcommerceDataLoader.raw: dict of table name -> DataFrame
    processed,    \* EcommerceDataLoader.processed: None or the merged DataFrame
    sales,        \* the DataFrame last returned by create_sales_dataset, as the caller holds it
    lastReturn,   \* the arguments and the rows of the last create_sales_dataset call
    effects,      \* what the last call of a loader method did, in order: "read_files", "merged"
    pc,           \* the position of the dashboard script
    date_range,   \* the value of the date-range widget: a tuple of dates
    start_dt,     \* start of the selected window
    end_dt,       \* end of the selected window
    comp_start,   \* start of the comparison window
    comp_end,     \* end of the comparison window
    warning,      \* whether the dashboard has shown its "no delivered orders" warning
    badges,       \* the trend badges of the KPI row
    sales_cur,    \* the sales rows handed to the aggregation functions
    sales_comp,   \* the comparison sales rows handed to calculate_revenue_metrics
    years,        \* <<current_year, comparison_year>>
    rev_m,        \* outcome of calculate_revenue_metrics: the dict returned or the exception
    rev_locals,   \* the local values of calculate_revenue_metrics before rounding
    monthly,      \* result of calculate_monthly_revenue
    prod_m,       \* result of calculate_product_metrics
    geo_m,        \* result of calculate_geographic_metrics
    del_m,        \* result of calculate_delivery_metrics
    order_level   \* the order-level frame of calculate_delivery_metrics with its buckets

loaderVars == <<files, raw, processed, sales, lastReturn, effects>>
dashVars == <<pc, date_range, start_dt, end_dt, comp_start, comp_end, warning, badges>>
metricVars == <<sales_cur, sales_comp, years, rev_m, rev_locals, monthly, prod_m, geo_m,
                del_m, order_level>>
vars == <<loaderVars, metricVars, dashVars>>

----------------------------------------------------------------------------
(* Bounds of the model *)

MaxItems == 2        \* rows of order_items_dataset.csv
MaxTableRows == 2    \* rows of each of the other CSV files (key-varying inputs)
MaxPairRows == 2     \* rows of each of the two sales sets of calculate_revenue_metrics
MaxRows == 3         \* rows of the sales set of the monthly, product and geographic functions
MaxDeliveryRows == 2 \* rows of the sales set of calculate_delivery_metrics

----------------------------------------------------------------------------
(* Cells and sequences *)

NaN == <<>>
None == <<>>
Some(x) == <<x>>
IsNa(c) == c = NaN
V(c) == c[1]

RECURSIVE Positions(_, _)
\* the positions of the TRUE entries of a boolean mask, ascending
Positions(mask, i) ==
    IF i > Len(mask) THEN <<>>
    ELSE (IF mask[i] THEN <<i>> ELSE <<>>) \o Positions(mask, i + 1)

RECURSIVE Flatten(_)
Flatten(ss) == IF ss = <<>> THEN <<>> ELSE Head(ss) \o Flatten(Tail(ss))

SeqsUpTo(S, lo, hi) == UNION {[1..n -> S] : n \in lo..hi}

RangeIndex(n) == [i \in 1..n |-> i - 1]

\* A DataFrame that owns its data, with a fresh RangeIndex
Frame(cols, rows) ==
    [columns |-> cols, index |-> RangeIndex(Len(rows)), rows |-> rows, shares |-> "none"]

----------------------------------------------------------------------------
(* Timestamps: [year, month, day, hour] *)

Ts(y, m, d, h) == [year |-> y, month |-> m, day |-> d, hour |-> h]

IsLeap(y) == (y % 4 = 0 /\ y % 100 # 0) \/ y % 400 = 0

DaysInMonth(y, m) ==
    IF m \in {1, 3, 5, 7, 8, 10, 12} THEN 31
    ELSE IF m \in {4, 6, 9, 11} THEN 30
    ELSE IF IsLeap(y) THEN 29 ELSE 28

RECURSIVE DaysBeforeMonth(_, _)
DaysBeforeMonth(y, m) ==
    IF m <= 1 THEN 0 ELSE DaysInMonth(y, m - 1) + DaysBeforeMonth(y, m - 1)

DaysBeforeYear(y) ==
    365 * (y - 1) + ((y - 1) \div 4) - ((y - 1) \div 100) + ((y - 1) \div 400)

\* hours since the start of the proleptic calendar
ToHours(t) ==
    24 * (DaysBeforeYear(t.year) + DaysBeforeMonth(t.year, t.month) + t.day) + t.hour

ValidDate(t) ==
    /\ t.year >= 1
    /\ t.month \in 1..12
    /\ t.day \in 1..DaysInMonth(t.year, t.month)
    /\ t.hour \in 0..23

\* (variant) the date column left as the text that was read
ToDatetimeUnparsed(cell) == cell

\* pd.to_datetime(cell, errors='coerce'): text that is no date becomes NaT
ToDatetime(cell) ==
    IF IsNa(cell) THEN NaN
    ELSE IF ValidDate(V(cell)) THEN cell ELSE NaN

\* Series.dt.year / .dt.month
DtYear(cell) == IF IsNa(cell) THEN NaN ELSE Some(V(cell).year)
DtMonth(cell) == IF IsNa(cell) THEN NaN ELSE Some(V(cell).month)

\* (a - b).dt.days: the days component of the Timedelta, which is floored
TimedeltaDays(a, b) ==
    IF IsNa(a) \/ IsNa(b) THEN NaN
    ELSE Some((ToHours(V(a)) - ToHours(V(b))) \div 24)

----------------------------------------------------------------------------
(* The CSV files.  `files` maps a table name to the rows of its file; date  *)
(* cells hold the text of the file, which load_raw_data parses.             *)

FILES == {"orders", "order_items", "products", "customers", "reviews", "payments"}

DATETIME_COLS(key) ==
    IF key = "orders" THEN
        {"order_purchase_timestamp", "order_approved_at", "order_delivered_carrier_date",
         "order_delivered_customer_date", "order_estimated_delivery_date"}
    ELSE IF key = "reviews" THEN {"review_creation_date", "review_answer_timestamp"}
    ELSE IF key = "order_items" THEN {"shipping_limit_date"}
    ELSE {}

\* the header line of each file
ColumnsOf(key) ==
    IF key = "orders" THEN
        {"order_id", "customer_id", "order_status", "order_purchase_timestamp",
         "order_approved_at", "order_delivered_customer_date"}
    ELSE IF key = "order_items" THEN
        {"order_id", "order_item_id", "product_id", "price", "freight_value",
         "shipping_limit_date"}
    ELSE IF key = "products" THEN {"product_id", "product_category_name"}
    ELSE IF key = "customers" THEN {"customer_id", "customer_state", "customer_city"}
    ELSE IF key = "reviews" THEN {"order_id", "review_score", "review_creation_date"}
    ELSE {"order_id", "payment_value"}

OrderIds == {"o1", "o2"}
CustomerOf(oid) == IF oid = "o1" THEN "c1" ELSE "c2"

\* Values that tell the rows of a file apart: row j of a file carries the j-th one
NameAt(names, j) == names[((j - 1) % Len(names)) + 1]
PriceAt(i) == 1000 * i
StatusAt(j) == Some(NameAt(<<"delivered", "shipped", "canceled", "invoiced">>, j))
PurchaseAt(j) == Some(Ts(2023, ((j - 1) % 12) + 1, 10, 22))
DeliveredAt(j) == Some(Ts(2023, ((j - 1) % 12) + 1, 12, 1))
CategoryAt(j) == Some(NameAt(<<"bed_bath", "toys", "auto", "garden">>, j))
StateAt(j) == Some(NameAt(<<"SP", "RJ", "MG", "BA">>, j))
CityAt(j) == Some(NameAt(<<"sao paulo", "rio", "belo horizonte", "salvador">>, j))
ScoreAt(j) == Some(5 - ((j - 1) % 5))

ItemRow(i, oid, pid) ==
    [order_id |-> Some(oid), order_item_id |-> Some(i), product_id |-> Some(pid),
     price |-> Some(PriceAt(i)), freight_value |-> Some(500),
     shipping_limit_date |-> Some(Ts(2023, 1, 20, 0))]

OrderRow(oid, status, purchase, delivered) ==
    [order_id |-> Some(oid), customer_id |-> Some(CustomerOf(oid)), order_status |-> status,
     order_purchase_timestamp |-> purchase, order_approved_at |-> purchase,
     order_delivered_customer_date |-> delivered]

ProductRow(pid, category) == [product_id |-> Some(pid), product_category_name |-> category]

CustomerRow(cid, state, city) ==
    [customer_id |-> Some(cid), customer_state |-> state, customer_city |-> city]

ReviewRow(oid, score) ==
    [order_id |-> Some(oid), review_score |-> score,
     review_creation_date |-> Some(Ts(2023, 2, 1, 0))]

\* order_items files: 1..MaxItems rows, each naming one of the order ids
ItemTables ==
    {[i \in 1..Len(k) |-> ItemRow(i, k[i], "p1")] : k \in SeqsUpTo(OrderIds, 1, MaxItems)}

(* Key-varying files: each table has 0..MaxTableRows rows, so that a key of *)
(* an item may be absent from a table, present once, or repeated.  The     *)
(* merge never reads the other columns, so row j carries the j-th value.   *)
KeyOrderTables ==
    {[j \in 1..Len(k) |-> OrderRow(k[j], StatusAt(j), PurchaseAt(j), DeliveredAt(j))] :
        k \in SeqsUpTo(OrderIds, 0, MaxTableRows)}
KeyProductTables ==
    {[j \in 1..n |-> ProductRow("p1", CategoryAt(j))] : n \in 0..MaxTableRows}
KeyCustomerTables ==
    {[j \in 1..n |-> CustomerRow("c1", StateAt(j), CityAt(j))] : n \in 0..MaxTableRows}
KeyReviewTables ==
    {[j \in 1..Len(k) |-> ReviewRow(k[j], ScoreAt(j))] :
        k \in SeqsUpTo(OrderIds, 0, MaxTableRows)}

KeyFiles ==
    [orders : KeyOrderTables, order_items : ItemTables, products : KeyProductTables,
     customers : KeyCustomerTables, reviews : KeyReviewTables, payments : {<<>>}]

(* Attribute-varying files: the keys are intact (both orders, their         *)
(* customers and the product exist once) and the status and the text of    *)
(* the purchase date of each order vary; "2023-13-01" is text that is no   *)
(* date.                                                                   *)
Statuses == {Some("delivered"), Some("shipped"), NaN}
PurchaseTexts == {Some(Ts(2023, 1, 10, 22)), Some(Ts(2022, 2, 3, 9)), Some(Ts(2023, 13, 1, 0))}

AttrOrderTables ==
    {<<OrderRow("o1", s1, p1, DeliveredAt(1)), OrderRow("o2", s2, p2, DeliveredAt(2))>> :
        s1 \in Statuses, p1 \in PurchaseTexts, s2 \in Statuses, p2 \in PurchaseTexts}

AttrFiles ==
    [orders : AttrOrderTables, order_items : ItemTables,
     products : {<<ProductRow("p1", CategoryAt(1))>>},
     customers : {<<CustomerRow("c1", StateAt(1), CityAt(1)),
                    CustomerRow("c2", StateAt(2), CityAt(2))>>},
     reviews : {<<ReviewRow("o1", ScoreAt(1))>>}, payments : {<<>>}]

----------------------------------------------------------------------------
(* pandas operations used by the loader *)

\* pd.read_csv followed by the date parsing of load_raw_data, for one file
ReadCsv(fs, key) ==
    Frame(ColumnsOf(key),
          [i \in 1..Len(fs[key]) |->
              [c \in ColumnsOf(key) |->
                  IF c \in DATETIME_COLS(key) THEN ToDatetime(fs[key][i][c])
                  ELSE fs[key][i][c]]])

\* df[[cols]]
Project(f, cols) ==
    [columns |-> cols, index |-> f.index,
     rows |-> [i \in 1..Len(f.rows) |-> [c \in cols |-> f.rows[i][c]]], shares |-> "none"]

\* df.copy()
Copy(f) == [f EXCEPT !.shares = "none"]

\* df[mask]: the rows whose mask entry is True, with their index labels, as a new frame
BoolIndex(f, mask) ==
    LET keep == Positions(mask, 1)
    IN  [columns |-> f.columns,
         index |-> [k \in 1..Len(keep) |-> f.index[keep[k]]],
         rows |-> [k \in 1..Len(keep) |-> f.rows[keep[k]]],
         shares |-> "none"]

\* df.reset_index(drop=True): a new frame with a fresh RangeIndex
ResetIndex(f) == Frame(f.columns, f.rows)

\* series == value, elementwise: a missing cell equals nothing
ColumnEq(f, col, value) == [i \in 1..Len(f.rows) |-> f.rows[i][col] = Some(value)]

\* the rows of `right` whose key equals that of the left row l, in order
\* (pandas matches a missing key with a missing key)
Matches(l, right, key) == SelectSeq(right.rows, LAMBDA r : r[key] = l[key])

\* (variant) the merge with how='inner': a left row without a match is dropped
MergeInner(left, right, key) ==
    LET cols == right.columns \ {key}
        Expand(l) ==
            LET m == Matches(l, right, key)
            IN  [j \in 1..Len(m) |-> l @@ [c \in cols |-> m[j][c]]]
    IN  Frame(left.columns \cup cols,
              Flatten([i \in 1..Len(left.rows) |-> Expand(left.rows[i])]))

\* left.merge(right, on=key, how='left')
MergeLeft(left, right, key) ==
    LET cols == right.columns \ {key}
        Expand(l) ==
            LET m == Matches(l, right, key)
            IN  IF Len(m) = 0 THEN <<l @@ [c \in cols |-> NaN]>>
                ELSE [j \in 1..Len(m) |-> l @@ [c \in cols |-> m[j][c]]]
    IN  Frame(left.columns \cup cols,
              Flatten([i \in 1..Len(left.rows) |-> Expand(left.rows[i])]))

\* (variant) drop_duplicates with keep='last'
DropDuplicatesLast(f, key) ==
    BoolIndex(f, [i \in 1..Len(f.rows) |->
                    \A j \in (i + 1)..Len(f.rows) : f.rows[j][key] # f.rows[i][key]])

\* df.drop_duplicates(subset=key, keep='first')
DropDuplicatesFirst(f, key) ==
    BoolIndex(f, [i \in 1..Len(f.rows) |->
                    \A j \in 1..(i - 1) : f.rows[j][key] # f.rows[i][key]])

\* df[col] = values
Assign(f, col, values) ==
    [f EXCEPT !.columns = @ \cup {col},
              !.rows = [i \in 1..Len(f.rows) |-> (col :> values[i]) @@ f.rows[i]]]

----------------------------------------------------------------------------
(* EcommerceDataLoader *)

EmptyDict == [k \in {} |-> {}]

\* load_raw_data: every file is read, its date columns parsed, and stored under its key
load_raw_data(fs) == [key \in FILES |-> ReadCsv(fs, key)]

\* the merge of process_data before the review scores are attached
MergeOrdersProductsCustomers(r) ==
    LET df1 == MergeLeft(Project(r["order_items"],
                                 {"order_id", "order_item_id", "product_id", "price",
                                  "freight_value"}),
                         Project(r["orders"],
                                 {"order_id", "customer_id", "order_status",
                                  "order_purchase_timestamp",
                                  "order_delivered_customer_date"}),
                         "order_id")
        df2 == MergeLeft(df1, Project(r["products"], {"product_id", "product_category_name"}),
                         "product_id")
    IN  MergeLeft(df2,
                  Project(r["customers"], {"customer_id", "customer_state", "customer_city"}),
                  "customer_id")

\* reviews[['order_id', 'review_score']].drop_duplicates(subset='order_id', keep='first')
ReviewsDeduped(r) ==
    DropDuplicatesFirst(Project(r["reviews"], {"order_id", "review_score"}), "order_id")

\* the derived columns purchase_year, purchase_month and delivery_days
DerivedColumns(df) ==
    LET n  == Len(df.rows)
        a  == Assign(df, "purchase_year",
                     [i \in 1..n |-> DtYear(df.rows[i]["order_purchase_timestamp"])])
        b  == Assign(a, "purchase_month",
                     [i \in 1..n |-> DtMonth(df.rows[i]["order_purchase_timestamp"])])
    IN  Assign(b, "delivery_days",
               [i \in 1..n |-> TimedeltaDays(df.rows[i]["order_delivered_customer_date"],
                                             df.rows[i]["order_purchase_timestamp"])])

\* process_data on a loader holding self_raw: the loader's raw and processed afterwards,
\* and what the call did (the files are read when raw is empty, the merge always runs)
process_data(self_raw, fs) ==
    LET r  == IF DOMAIN self_raw = {} THEN load_raw_data(fs) ELSE self_raw
        df == MergeLeft(MergeOrdersProductsCustomers(r), ReviewsDeduped(r), "order_id")
    IN  [raw |-> r, processed |-> Some(DerivedColumns(df)),
         effects |-> (IF DOMAIN self_raw = {} THEN <<"read_files">> ELSE <<>>) \o <<"merged">>]

\* (variant) the filters with the month filter left out
FilterSalesWithoutMonth(df, year_filter, month_filter, status_filter) ==
    LET a == IF status_filter # None
             THEN BoolIndex(df, ColumnEq(df, "order_status", V(status_filter))) ELSE df
    IN  IF year_filter # None
        THEN BoolIndex(a, ColumnEq(a, "purchase_year", V(year_filter))) ELSE a

\* the three optional filters of create_sales_dataset, applied in the code's order
FilterSales(df, year_filter, month_filter, status_filter) ==
    LET a == IF status_filter # None
             THEN BoolIndex(df, ColumnEq(df, "order_status", V(status_filter))) ELSE df
        b == IF year_filter # None
             THEN BoolIndex(a, ColumnEq(a, "purchase_year", V(year_filter))) ELSE a
        c == IF month_filter # None
             THEN BoolIndex(b, ColumnEq(b, "purchase_month", V(month_filter))) ELSE b
    IN  c

\* (variant) create_sales_dataset filtering self.processed in place
create_sales_dataset_inplace(self_raw, self_processed, fs, year_filter, month_filter, status_filter) ==
    LET self == IF self_processed = None THEN process_data(self_raw, fs)
                ELSE [raw |-> self_raw, processed |-> self_processed, effects |-> <<>>]
        out  == ResetIndex(FilterSales(V(self.processed), year_filter, month_filter,
                                       status_filter))
    IN  [raw |-> self.raw, processed |-> Some(out), ret |-> Copy(out), effects |-> self.effects]

\* (variant) create_sales_dataset calling process_data on every call
create_sales_dataset_eager(self_raw, self_processed, fs, year_filter, month_filter, status_filter) ==
    LET self == process_data(self_raw, fs)
        df   == Copy([V(self.processed) EXCEPT !.shares = "processed"])
    IN  [raw |-> self.raw, processed |-> self.processed,
         ret |-> ResetIndex(FilterSales(df, year_filter, month_filter, status_filter)),
         effects |-> self.effects]

\* create_sales_dataset on a loader holding (self_raw, self_processed): the loader's
\* raw and processed afterwards, and the frame returned
create_sales_dataset(self_raw, self_processed, fs, year_filter, month_filter, status_filter) ==
    LET self == IF self_processed = None THEN process_data(self_raw, fs)
                ELSE [raw |-> self_raw, processed |-> self_processed, effects |-> <<>>]
        df   == Copy([V(self.processed) EXCEPT !.shares = "processed"])
    IN  [raw |-> self.raw, processed |-> self.processed,
         ret |-> ResetIndex(FilterSales(df, year_filter, month_filter, status_filter)),
         effects |-> self.effects]

\* the default of the status_filter parameter
DefaultStatusFilter == Some("delivered")

----------------------------------------------------------------------------
(* The callers' arguments *)

YearFilters == {None, Some(2023)}
MonthFilters == {None, Some(1)}
StatusFilters == {None, Some("shipped")}

----------------------------------------------------------------------------
(* Actions of the loader *)

LoadRawData ==
    /\ raw' = load_raw_data(files)
    /\ effects' = <<"read_files">>
    /\ UNCHANGED <<files, processed, sales, lastReturn, metricVars, dashVars>>

ProcessData ==
    LET self == process_data(raw, files)
    IN  /\ raw' = self.raw
        /\ processed' = self.processed
        /\ effects' = self.effects
        /\ UNCHANGED <<files, sales, lastReturn, metricVars, dashVars>>

Call(year_filter, month_filter, status_filter, given) ==
    LET out == create_sales_dataset(raw, processed, files, year_filter, month_filter,
                                    status_filter)
    IN  /\ raw' = out.raw
        /\ processed' = out.processed
        /\ sales' = Some(out.ret)
        /\ lastReturn' = Some([year_filter |-> year_filter, month_filter |-> month_filter,
                               status_filter |-> status_filter, given |-> given,
                               rows |-> out.ret.rows])
        /\ effects' = out.effects
        /\ UNCHANGED <<files, metricVars, dashVars>>

\* loader.create_sales_dataset(year_filter, month_filter, status_filter)
CreateSalesDataset ==
    \E y \in YearFilters, m \in MonthFilters, s \in StatusFilters : Call(y, m, s, TRUE)

\* loader.create_sales_dataset(year_filter, month_filter): status_filter is not given
CreateSalesDatasetDefault ==
    \E y \in YearFilters, m \in MonthFilters : Call(y, m, DefaultStatusFilter, FALSE)

\* the caller writes into the frame it was given: sales.loc[0, 'price'] = 0
ModifySales ==
    /\ sales # None
    /\ Len(V(sales).rows) > 0
    /\ V(sales).rows[1]["price"] # Some(0)
    /\ LET written == [V(sales) EXCEPT !.rows[1]["price"] = Some(0)]
       IN  /\ sales' = Some(written)
           /\ processed' = IF V(sales).shares = "processed"
                           THEN Some([written EXCEPT !.shares = "none"])
                           ELSE processed
    /\ UNCHANGED <<files, raw, lastReturn, effects, metricVars, dashVars>>

\* no aggregation function has been called and none is given any rows
MetricsIdle ==
    /\ sales_cur = <<>>
    /\ sales_comp = <<>>
    /\ years = <<2023, 2022>>
    /\ rev_m = None
    /\ rev_locals = None
    /\ monthly = None
    /\ prod_m = None
    /\ geo_m = None
    /\ del_m = None
    /\ order_level = None

\* a fresh loader
LoaderFresh ==
    /\ raw = EmptyDict
    /\ processed = None
    /\ sales = None
    /\ lastReturn = None
    /\ effects = <<>>

\* the dashboard script is not running
DashboardIdle ==
    /\ pc = "idle"
    /\ date_range = <<>>
    /\ start_dt = None
    /\ end_dt = None
    /\ comp_start = None
    /\ comp_end = None
    /\ warning = FALSE
    /\ badges = None

Init ==
    /\ files \in AttrFiles
    /\ LoaderFresh
    /\ DashboardIdle
    /\ MetricsIdle

Next ==
    \/ LoadRawData
    \/ ProcessData
    \/ CreateSalesDataset
    \/ CreateSalesDatasetDefault
    \/ ModifySales

Spec == Init /\ [][Next]_vars

\* The merge on key-varying files
InitMerge ==
    /\ files \in KeyFiles
    /\ LoaderFresh
    /\ DashboardIdle
    /\ MetricsIdle

NextMerge ==
    \/ LoadRawData
    \/ ProcessData

SpecMerge == InitMerge /\ [][NextMerge]_vars

----------------------------------------------------------------------------
(* Properties of the merge (SpecMerge) *)

UniqueKey(rows, key) ==
    \A i, j \in 1..Len(rows) : i # j => rows[i][key] # rows[j][key]

KeysUnique ==
    /\ UniqueKey(raw["orders"].rows, "order_id")
    /\ UniqueKey(raw["products"].rows, "product_id")
    /\ UniqueKey(raw["customers"].rows, "customer_id")

HasMatch(row, rrows, key) == \E j \in 1..Len(rrows) : rrows[j][key] = row[key]

\* the columns cols of row are those of a row of rrows with the same key, or all
\* missing when rrows has no such row
AttachedFrom(row, rrows, key, cols) ==
    IF HasMatch(row, rrows, key)
    THEN \E j \in 1..Len(rrows) :
            rrows[j][key] = row[key] /\ \A c \in cols : row[c] = rrows[j][c]
    ELSE \A c \in cols : row[c] = NaN

OrderCols ==
    {"customer_id", "order_status", "order_purchase_timestamp", "order_delivered_customer_date"}

\* C1: with order_id unique in orders, product_id unique in products and customer_id
\* unique in customers, the processed table has exactly one row per order-item row, in
\* the items' order with the item's own columns, and the columns attached from the
\* order, the product and the customer are those of the matching row, or missing when
\* there is none; a row whose order has no review has a missing review_score.
C1_OneRowPerItem ==
    (processed # None /\ KeysUnique) =>
        LET p     == V(processed).rows
            items == raw["order_items"].rows
        IN  /\ Len(p) = Len(items)
            /\ \A i \in 1..Len(p) :
                /\ \A c \in {"order_id", "order_item_id", "product_id", "price",
                             "freight_value"} : p[i][c] = items[i][c]
                /\ AttachedFrom(p[i], raw["orders"].rows, "order_id", OrderCols)
                /\ AttachedFrom(p[i], raw["products"].rows, "product_id",
                                {"product_category_name"})
                /\ AttachedFrom(p[i], raw["customers"].rows, "customer_id",
                                {"customer_state", "customer_city"})
                /\ (~HasMatch(p[i], raw["reviews"].rows, "order_id")
                        => p[i]["review_score"] = NaN)

\* a processed table over unique keys in which one item has no order (and so no
\* customer) and another has its order, product, customer and review
C1_Witness ==
    /\ processed # None
    /\ KeysUnique
    /\ \E i, j \in 1..Len(V(processed).rows) :
        LET p == V(processed).rows
        IN  /\ ~HasMatch(p[i], raw["orders"].rows, "order_id")
            /\ p[i]["order_status"] = NaN
            /\ p[i]["customer_state"] = NaN
            /\ HasMatch(p[j], raw["orders"].rows, "order_id")
            /\ HasMatch(p[j], raw["products"].rows, "product_id")
            /\ HasMatch(p[j], raw["customers"].rows, "customer_id")
            /\ HasMatch(p[j], raw["reviews"].rows, "order_id")

\* the score of the first review of the order in file order, missing when it has none
FirstReviewScore(oid) ==
    LET rs == raw["reviews"].rows
        at == {j \in 1..Len(rs) : rs[j]["order_id"] = oid}
    IN  IF at = {} THEN NaN
        ELSE rs[CHOOSE j \in at : \A k \in at : j <= k]["review_score"]

\* C2: every processed row carries the score of the first review of its order in file
\* order (missing when the order has no review), so all rows of one order agree, and
\* attaching the reviews adds no row, however many reviews an order has.
C2_FirstReviewPerOrder ==
    processed # None =>
        LET p == V(processed).rows
        IN  /\ \A i \in 1..Len(p) : p[i]["review_score"] = FirstReviewScore(p[i]["order_id"])
            /\ \A i, j \in 1..Len(p) :
                p[i]["order_id"] = p[j]["order_id"]
                    => p[i]["review_score"] = p[j]["review_score"]
            /\ Len(p) = Len(MergeOrdersProductsCustomers(raw).rows)

\* an order with two item rows and two reviews of different scores
C2_Witness ==
    /\ processed # None
    /\ \E i, j \in 1..Len(V(processed).rows) :
        /\ i # j
        /\ V(processed).rows[i]["order_id"] = V(processed).rows[j]["order_id"]
        /\ \E a, b \in 1..Len(raw["reviews"].rows) :
            /\ a < b
            /\ raw["reviews"].rows[a]["order_id"] = V(processed).rows[i]["order_id"]
            /\ raw["reviews"].rows[b]["order_id"] = V(processed).rows[i]["order_id"]
            /\ raw["reviews"].rows[a]["review_score"] # raw["reviews"].rows[b]["review_score"]

----------------------------------------------------------------------------
(* Properties of create_sales_dataset (Spec) *)

\* does the row pass the filter f on column col (None passes every row)
Passes(row, col, f) == f = None \/ (row[col] # NaN /\ row[col] = f)

\* C3: the rows returned are exactly the processed rows, in their order, whose
\* order_status, purchase_year and purchase_month equal the filters given; a filter
\* of None restricts nothing, and an omitted status_filter selects 'delivered'.
C3_ExactlyTheMatchingRows ==
    (lastReturn # None /\ processed # None) =>
        LET a      == V(lastReturn)
            status == IF a.given THEN a.status_filter ELSE Some("delivered")
        IN  a.rows = SelectSeq(V(processed).rows,
                               LAMBDA r : /\ Passes(r, "order_status", status)
                                          /\ Passes(r, "purchase_year", a.year_filter)
                                          /\ Passes(r, "purchase_month", a.month_filter))

\* a call with all three filters given that keeps one row and drops another
C3_Witness ==
    /\ lastReturn # None
    /\ processed # None
    /\ V(lastReturn).given
    /\ V(lastReturn).status_filter # None
    /\ V(lastReturn).year_filter # None
    /\ V(lastReturn).month_filter # None
    /\ Len(V(lastReturn).rows) > 0
    /\ Len(V(lastReturn).rows) < Len(V(processed).rows)

CreateStep == CreateSalesDataset \/ CreateSalesDatasetDefault

SameArguments(a, b) ==
    /\ a.year_filter = b.year_filter
    /\ a.month_filter = b.month_filter
    /\ a.status_filter = b.status_filter

\* C4: once processed is set, no create_sales_dataset call changes it, a call with the
\* arguments of the previous call returns the same rows, and a write into the returned
\* frame leaves processed as it was.
C4_ProcessedImmutable ==
    [][/\ (processed # None /\ CreateStep) =>
            /\ processed' = processed
            /\ (lastReturn # None /\ SameArguments(V(lastReturn), V(lastReturn')))
                    => V(lastReturn').rows = V(lastReturn).rows
       /\ ModifySales => processed' = processed]_vars

\* the caller has written into a returned frame and processed still has the old value
C4_Witness ==
    /\ sales # None
    /\ processed # None
    /\ Len(V(sales).rows) > 0
    /\ V(sales).rows[1]["price"] = Some(0)
    /\ \A i \in 1..Len(V(processed).rows) : V(processed).rows[i]["price"] # Some(0)
    /\ Len(V(lastReturn).rows) = Len(V(processed).rows)

----------------------------------------------------------------------------
(* Numbers of the aggregation functions.  A float is the exact ratio        *)
(* [num, den] with den > 0; [num |-> 0, den |-> 0] is NaN and               *)
(* [num |-> 1, den |-> 0] is +inf.                                          *)

Q(n, d) == [num |-> n, den |-> d]
QNaN == Q(0, 0)
QInt(n) == Q(n, 1)
QInf == Q(1, 0)
QIsNaN(a) == a.den = 0 /\ a.num = 0
QIsInf(a) == a.den = 0 /\ a.num # 0
Abs(n) == IF n < 0 THEN 0 - n ELSE n

QSub(a, b) ==
    IF QIsNaN(a) \/ QIsNaN(b) THEN QNaN
    ELSE Q(a.num * b.den - b.num * a.den, a.den * b.den)

\* a / b for b # 0
QDiv(a, b) ==
    IF QIsNaN(a) \/ QIsNaN(b) THEN QNaN
    ELSE IF b.num < 0 THEN Q(0 - a.num * b.den, a.den * (0 - b.num))
    ELSE Q(a.num * b.den, a.den * b.num)

QTimes(k, a) == IF QIsNaN(a) THEN QNaN ELSE Q(k * a.num, a.den)

\* bool(x) of a number: zero is false, everything else (NaN too) is true
Truthy(a) == QIsNaN(a) \/ a.num # 0

\* a number rounded to the nearest integer, a tie to the even one; NaN stays NaN
RoundHalfEven(a) ==
    IF QIsNaN(a) THEN NaN
    ELSE LET fl == a.num \div a.den
             r  == a.num % a.den
         IN  Some(IF 2 * r < a.den THEN fl
                  ELSE IF 2 * r > a.den THEN fl + 1
                  ELSE IF fl % 2 = 0 THEN fl ELSE fl + 1)

\* round(x, 2) of a plain number (a percentage, a score), in hundredths
Round2(a) == RoundHalfEven(QTimes(100, a))

\* round(x, 2) of an amount of money given in cents: the whole cents
RoundAmount(a) == RoundHalfEven(a)

\* round(x, 1) of a plain number, in tenths
Round1(a) == RoundHalfEven(QTimes(10, a))

RECURSIVE SumSeq(_)
SumSeq(xs) == IF xs = <<>> THEN 0 ELSE Head(xs) + SumSeq(Tail(xs))

\* Series.sum(): missing values are skipped, the empty sum is 0
ColumnSum(rows, col) ==
    SumSeq([i \in 1..Len(rows) |-> IF IsNa(rows[i][col]) THEN 0 ELSE V(rows[i][col])])

\* Series.nunique(): the number of distinct values that are not missing
Nunique(rows, col) == Cardinality({rows[i][col] : i \in 1..Len(rows)} \ {NaN})

\* the group keys of df.groupby(key): the distinct values that are not missing
GroupKeys(rows, key) == {rows[i][key] : i \in 1..Len(rows)} \ {NaN}

\* the rows of one group, in order
GroupRows(rows, key, k) == SelectSeq(rows, LAMBDA r : r[key] = k)

\* (variant) the aggregation 'first' in place of 'sum'
GroupByFirst(rows, key, col) ==
    [k \in GroupKeys(rows, key) |-> ColumnSum(SubSeq(GroupRows(rows, key, k), 1, 1), col)]

\* df.groupby(key)[col].sum(): a Series indexed by the group keys
GroupBySum(rows, key, col) ==
    [k \in GroupKeys(rows, key) |-> ColumnSum(GroupRows(rows, key, k), col)]

RECURSIVE SumOver(_, _)
SumOver(f, S) ==
    IF S = {} THEN 0 ELSE LET x == CHOOSE x \in S : TRUE IN f[x] + SumOver(f, S \ {x})

\* Series.mean() of a Series of numbers: NaN when it is empty
SeriesMean(series) ==
    IF DOMAIN series = {} THEN QNaN
    ELSE Q(SumOver(series, DOMAIN series), Cardinality(DOMAIN series))

----------------------------------------------------------------------------
(* calculate_revenue_metrics *)

\* (variant) the average order value taken as the mean item price
AovMeanItemPrice(rows) ==
    IF Len(rows) = 0 THEN QNaN ELSE Q(ColumnSum(rows, "price"), Len(rows))

\* sales.groupby('order_id')['price'].sum().mean()
AovOf(rows) == SeriesMean(GroupBySum(rows, "order_id", "price"))

\* the inner function pct_change(new, old)
pct_change(new, old) ==
    IF Truthy(old) THEN Some(QTimes(100, QDiv(QSub(new, old), old))) ELSE None

\* round(x, 2) raises TypeError when x is None
RoundRaises(x) == x = None

\* a dict literal: a later entry replaces an earlier one with the same key
DictOf(pairs) ==
    [k \in {pairs[i][1] : i \in 1..Len(pairs)} |->
        pairs[CHOOSE i \in 1..Len(pairs) :
                /\ pairs[i][1] = k
                /\ \A j \in 1..Len(pairs) : pairs[j][1] = k => j <= i][2]]

\* the six local values of lines 81-88
RevenueLocals(current_sales, comparison_sales) ==
    [rev_cur     |-> ColumnSum(current_sales, "price"),
     rev_comp    |-> ColumnSum(comparison_sales, "price"),
     orders_cur  |-> Nunique(current_sales, "order_id"),
     orders_comp |-> Nunique(comparison_sales, "order_id"),
     aov_cur     |-> AovOf(current_sales),
     aov_comp    |-> AovOf(comparison_sales)]

\* calculate_revenue_metrics: [raised, value], the exception raised ("" for none) and
\* the dict returned; a key that ends in a year is <<prefix, year>>
calculate_revenue_metrics(current_sales, comparison_sales, current_year, comparison_year) ==
    LET l          == RevenueLocals(current_sales, comparison_sales)
        rev_growth == pct_change(QInt(l.rev_cur), QInt(l.rev_comp))
        ord_growth == pct_change(QInt(l.orders_cur), QInt(l.orders_comp))
        aov_growth == pct_change(l.aov_cur, l.aov_comp)
    IN  IF RoundRaises(rev_growth) \/ RoundRaises(ord_growth) \/ RoundRaises(aov_growth)
        THEN [raised |-> "TypeError", value |-> EmptyDict]
        ELSE [raised |-> "",
              value |-> DictOf(<<
                <<<<"current_year">>, current_year>>,
                <<<<"comparison_year">>, comparison_year>>,
                <<<<"total_revenue_", current_year>>, RoundAmount(QInt(l.rev_cur))>>,
                <<<<"total_revenue_", comparison_year>>, RoundAmount(QInt(l.rev_comp))>>,
                <<<<"revenue_growth_pct">>, Round2(V(rev_growth))>>,
                <<<<"total_orders_", current_year>>, l.orders_cur>>,
                <<<<"total_orders_", comparison_year>>, l.orders_comp>>,
                <<<<"order_growth_pct">>, Round2(V(ord_growth))>>,
                <<<<"aov_", current_year>>, RoundAmount(l.aov_cur)>>,
                <<<<"aov_", comparison_year>>, RoundAmount(l.aov_comp)>>,
                <<<<"aov_growth_pct">>, Round2(V(aov_growth))>> >>)]

Prices == {0, 1, 3}

RevenueRow(oid, price) == [order_id |-> Some(oid), price |-> Some(price)]
RevenueRows == {RevenueRow(o, p) : o \in OrderIds, p \in Prices}

NoFiles == [k \in FILES |-> <<>>]

CalculateRevenueMetrics ==
    /\ rev_m = None
    /\ rev_m' = Some(calculate_revenue_metrics(sales_cur, sales_comp, years[1], years[2]))
    /\ rev_locals' = Some(RevenueLocals(sales_cur, sales_comp))
    /\ UNCHANGED <<loaderVars, dashVars, sales_cur, sales_comp, years, monthly, prod_m, geo_m, del_m,
                   order_level>>

\* no aggregation function has been called
NothingComputed ==
    /\ rev_m = None
    /\ rev_locals = None
    /\ monthly = None
    /\ prod_m = None
    /\ geo_m = None
    /\ del_m = None
    /\ order_level = None

InitRevenue ==
    /\ files = NoFiles
    /\ LoaderFresh
    /\ DashboardIdle
    /\ sales_cur \in SeqsUpTo(RevenueRows, 0, MaxPairRows)
    /\ sales_comp \in SeqsUpTo(RevenueRows, 0, MaxPairRows)
    /\ years \in {<<2023, 2022>>, <<2018, 2017>>}
    /\ NothingComputed

SpecRevenue == InitRevenue /\ [][CalculateRevenueMetrics]_vars

----------------------------------------------------------------------------
(* calculate_monthly_revenue *)

RECURSIVE SortAscending(_)
\* the elements of a set of integers in ascending order
SortAscending(S) ==
    IF S = {} THEN <<>>
    ELSE LET m == CHOOSE x \in S : \A y \in S : x <= y
         IN  <<m>> \o SortAscending(S \ {m})

\* Series.pct_change(): the change of each entry relative to the entry before it in
\* the Series; the first entry has none, and a division by zero gives inf or NaN
PctChange(xs) ==
    [j \in 1..Len(xs) |->
        IF j = 1 THEN QNaN
        ELSE IF xs[j - 1] = 0 THEN (IF xs[j] = 0 THEN QNaN ELSE QInf)
        ELSE Q(xs[j] - xs[j - 1], xs[j - 1])]

\* calculate_monthly_revenue: rows [purchase_month, revenue, mom_growth_pct], by month
calculate_monthly_revenue(rows) ==
    LET sums   == GroupBySum(rows, "purchase_month", "price")
        months == SortAscending({V(k) : k \in DOMAIN sums})
        growth == PctChange([j \in 1..Len(months) |-> sums[Some(months[j])]])
    IN  [j \in 1..Len(months) |->
            [purchase_month |-> months[j], revenue |-> sums[Some(months[j])],
             mom_growth_pct |-> IF QIsInf(growth[j]) THEN QInf ELSE QTimes(100, growth[j])]]

Months == {Some(1), Some(2), Some(3), NaN}

MonthlyRows == {[purchase_month |-> m, price |-> Some(p)] : m \in Months, p \in Prices}

CalculateMonthlyRevenue ==
    /\ monthly = None
    /\ monthly' = Some(calculate_monthly_revenue(sales_cur))
    /\ UNCHANGED <<loaderVars, dashVars, sales_cur, sales_comp, years, rev_m, rev_locals, prod_m, geo_m,
                   del_m, order_level>>

InitMonthly ==
    /\ files = NoFiles
    /\ LoaderFresh
    /\ DashboardIdle
    /\ sales_cur \in SeqsUpTo(MonthlyRows, 0, MaxRows)
    /\ sales_comp = <<>>
    /\ years = <<2023, 2022>>
    /\ NothingComputed

SpecMonthly == InitMonthly /\ [][CalculateMonthlyRevenue]_vars

----------------------------------------------------------------------------
(* calculate_product_metrics and calculate_geographic_metrics *)

\* sort_values(col, ascending=False) of a frame with one row per key: the orders of the
\* keys in which col does not increase (the order of equal values is not fixed)
DescendingOrders(keys, value) ==
    {o \in [1..Cardinality(keys) -> keys] :
        /\ \A i, j \in DOMAIN o : i # j => o[i] # o[j]
        /\ \A i, j \in DOMAIN o : i < j => value[o[i]] >= value[o[j]]}

\* (cat['revenue'] / cat['revenue'].sum() * 100).round(2) for the category k
MarketSharePct(revenue, k) ==
    LET total == SumOver(revenue, DOMAIN revenue)
    IN  IF total = 0 THEN NaN ELSE Round2(Q(100 * revenue[k], total))

\* calculate_product_metrics, with the categories in the order `order`
calculate_product_metrics(rows, order) ==
    LET revenue == GroupBySum(rows, "product_category_name", "price")
    IN  [j \in 1..Len(order) |->
            [product_category_name |-> order[j], revenue |-> revenue[order[j]],
             market_share_pct |-> MarketSharePct(revenue, order[j])]]

Categories == {Some("bed_bath"), Some("toys"), NaN}

ProductRows == {[product_category_name |-> c, price |-> Some(p)] : c \in Categories, p \in Prices}

CalculateProductMetrics ==
    /\ prod_m = None
    /\ \E order \in DescendingOrders(GroupKeys(sales_cur, "product_category_name"),
                                     GroupBySum(sales_cur, "product_category_name", "price")) :
            prod_m' = Some(calculate_product_metrics(sales_cur, order))
    /\ UNCHANGED <<loaderVars, dashVars, sales_cur, sales_comp, years, rev_m, rev_locals, monthly, geo_m,
                   del_m, order_level>>

InitProduct ==
    /\ files = NoFiles
    /\ LoaderFresh
    /\ DashboardIdle
    /\ sales_cur \in SeqsUpTo(ProductRows, 0, MaxRows)
    /\ sales_comp = <<>>
    /\ years = <<2023, 2022>>
    /\ NothingComputed

SpecProduct == InitProduct /\ [][CalculateProductMetrics]_vars

\* (variant) the order count taken as the number of item rows of the state
CountRows(rows, col) == Len(rows)

\* the aggregation ('order_id', 'nunique') of one group
OrderCount(rows, col) == Nunique(rows, col)

\* calculate_geographic_metrics, with the states in the order `order`
calculate_geographic_metrics(rows, order) ==
    LET revenue == GroupBySum(rows, "customer_state", "price")
        count   == [k \in GroupKeys(rows, "customer_state") |->
                        OrderCount(GroupRows(rows, "customer_state", k), "order_id")]
    IN  [j \in 1..Len(order) |->
            [customer_state |-> order[j], revenue |-> revenue[order[j]],
             order_count |-> count[order[j]],
             aov |-> IF count[order[j]] = 0
                     THEN (IF revenue[order[j]] = 0 THEN NaN ELSE Some(QInf))
                     ELSE RoundAmount(Q(revenue[order[j]], count[order[j]]))]]

States == {Some("SP"), Some("RJ"), NaN}

GeoRows ==
    {[customer_state |-> st, order_id |-> Some(o), price |-> Some(p)] :
        st \in States, o \in OrderIds, p \in Prices}

CalculateGeographicMetrics ==
    /\ geo_m = None
    /\ \E order \in DescendingOrders(GroupKeys(sales_cur, "customer_state"),
                                     GroupBySum(sales_cur, "customer_state", "price")) :
            geo_m' = Some(calculate_geographic_metrics(sales_cur, order))
    /\ UNCHANGED <<loaderVars, dashVars, sales_cur, sales_comp, years, rev_m, rev_locals, monthly, prod_m,
                   del_m, order_level>>

InitGeo ==
    /\ files = NoFiles
    /\ LoaderFresh
    /\ DashboardIdle
    /\ sales_cur \in SeqsUpTo(GeoRows, 0, MaxRows)
    /\ sales_comp = <<>>
    /\ years = <<2023, 2022>>
    /\ NothingComputed

SpecGeo == InitGeo /\ [][CalculateGeographicMetrics]_vars

----------------------------------------------------------------------------
(* calculate_delivery_metrics *)

\* _bucket_delivery(days)
_bucket_delivery(days) ==
    IF IsNa(days) THEN "unknown"
    ELSE IF V(days) <= 3 THEN "1-3 days"
    ELSE IF V(days) <= 7 THEN "4-7 days"
    ELSE "8+ days"

\* Series.mean(): the mean of the values that are not missing, NaN when there is none
ColumnMean(rows, col) ==
    LET present == SelectSeq(rows, LAMBDA r : ~IsNa(r[col]))
    IN  IF Len(present) = 0 THEN QNaN ELSE Q(ColumnSum(present, col), Len(present))

\* Series.count(): the number of values that are not missing
ColumnCount(rows, col) == Len(SelectSeq(rows, LAMBDA r : ~IsNa(r[col])))

\* (variant) the order-level frame without drop_duplicates: one row per item row
OrderLevelPerItem(rows) ==
    [i \in 1..Len(rows) |->
        [order_id |-> rows[i]["order_id"], delivery_days |-> rows[i]["delivery_days"],
         review_score |-> rows[i]["review_score"],
         delivery_time |-> _bucket_delivery(rows[i]["delivery_days"])]]

\* the order-level frame of lines 214-220: one row per order_id, with its bucket
OrderLevel(rows) ==
    LET first == DropDuplicatesFirst(
                    Frame({"order_id", "delivery_days", "review_score"},
                          [i \in 1..Len(rows) |->
                              [c \in {"order_id", "delivery_days", "review_score"} |->
                                  rows[i][c]]]),
                    "order_id").rows
    IN  [i \in 1..Len(first) |->
            ("delivery_time" :> _bucket_delivery(first[i]["delivery_days"])) @@ first[i]]

bucket_order == <<"1-3 days", "4-7 days", "8+ days">>

\* lines 222-235: one row per bucket in use; a bucket that is no category of
\* bucket_order gets a missing delivery_time and sorts last
BucketSummary(ol) ==
    LET used   == {ol[i]["delivery_time"] : i \in 1..Len(ol)}
        InUse  == SelectSeq(bucket_order, LAMBDA b : b \in used)
        others == used \ {bucket_order[j] : j \in 1..Len(bucket_order)}
        Row(b, label) ==
            LET g == SelectSeq(ol, LAMBDA r : r["delivery_time"] = b)
            IN  [delivery_time |-> label,
                 avg_review_score |-> ColumnMean(g, "review_score"),
                 order_count |-> ColumnCount(g, "order_id")]
    IN  [j \in 1..Len(InUse) |-> Row(InUse[j], Some(InUse[j]))]
            \o (IF others = {} THEN <<>> ELSE <<Row(CHOOSE b \in others : TRUE, NaN)>>)

\* calculate_delivery_metrics
calculate_delivery_metrics(rows) ==
    LET ol == OrderLevel(rows)
    IN  [avg_delivery_days |-> Round1(ColumnMean(ol, "delivery_days")),
         avg_review_score |-> Round2(ColumnMean(ol, "review_score")),
         delivery_bucket_summary |-> BucketSummary(ol)]

DeliveryDays == {NaN} \cup {Some(d) : d \in {0 - 1, 0, 1, 3, 4, 7, 8}}
ReviewScores == {NaN, Some(1), Some(5)}

DeliveryRows ==
    {[order_id |-> Some(o), delivery_days |-> d, review_score |-> sc] :
        o \in OrderIds, d \in DeliveryDays, sc \in ReviewScores}

CalculateDeliveryMetrics ==
    /\ del_m = None
    /\ del_m' = Some(calculate_delivery_metrics(sales_cur))
    /\ order_level' = Some(OrderLevel(sales_cur))
    /\ UNCHANGED <<loaderVars, dashVars, sales_cur, sales_comp, years, rev_m, rev_locals, monthly, prod_m,
                   geo_m>>

InitDelivery ==
    /\ files = NoFiles
    /\ LoaderFresh
    /\ DashboardIdle
    /\ sales_cur \in SeqsUpTo(DeliveryRows, 0, MaxDeliveryRows)
    /\ sales_comp = <<>>
    /\ years = <<2023, 2022>>
    /\ NothingComputed

SpecDelivery == InitDelivery /\ [][CalculateDeliveryMetrics]_vars

----------------------------------------------------------------------------
(* Properties of calculate_revenue_metrics (SpecRevenue) *)

\* the exact ratio a equals n / d
IsRatio(a, n, d) == d # 0 /\ ~QIsNaN(a) /\ a.num * d = n * a.den

\* C5: for each of the two sales sets that is not empty, the average order value (the
\* mean of the per-order price sums) is, before rounding, the total revenue of the set
\* divided by its number of distinct orders.
C5_AovIsRevenuePerOrder ==
    rev_locals # None =>
        LET l == V(rev_locals)
        IN  /\ Len(sales_cur) > 0 => IsRatio(l.aov_cur, l.rev_cur, l.orders_cur)
            /\ Len(sales_comp) > 0 => IsRatio(l.aov_comp, l.rev_comp, l.orders_comp)

\* the current set is one order of two item lines at different prices, the comparison
\* set is two orders, and the dict is returned
C5_Witness ==
    /\ rev_locals # None
    /\ V(rev_m).raised = ""
    /\ Len(sales_cur) = 2
    /\ V(rev_locals).orders_cur = 1
    /\ sales_cur[1]["price"] # sales_cur[2]["price"]
    /\ V(rev_locals).orders_comp = 2
    /\ V(rev_locals).rev_comp > 0

\* h is x rounded to hundredths, for the exact ratio x = n / d with d # 0
IsRounded(h, n, d) == h # NaN /\ 2 * Abs(V(h) * d - 100 * n) <= Abs(d)

\* the dict returned holds, under key, (new - old) / old * 100 rounded to 2 decimals,
\* for new = nn / nd and old = on / od
GrowthReturned(key, nn, nd, on, od) ==
    /\ V(rev_m).raised = ""
    /\ key \in DOMAIN V(rev_m).value
    /\ IsRounded(V(rev_m).value[key], 100 * (nn * od - on * nd), on * nd)

\* C6: calculate_revenue_metrics returns, for revenue, distinct order count and AOV
\* alike, the growth (current - comparison) / comparison * 100 rounded to 2 decimals
\* whenever the comparison value is not zero, with the two years and the per-year
\* totals under the keys that end in the year.
C6_GrowthWheneverComparisonNonZero ==
    rev_m # None =>
        LET l == V(rev_locals)
        IN  /\ l.rev_comp # 0 =>
                GrowthReturned(<<"revenue_growth_pct">>, l.rev_cur, 1, l.rev_comp, 1)
            /\ l.orders_comp # 0 =>
                GrowthReturned(<<"order_growth_pct">>, l.orders_cur, 1, l.orders_comp, 1)
            /\ (~QIsNaN(l.aov_comp) /\ l.aov_comp.num # 0 /\ ~QIsNaN(l.aov_cur)) =>
                GrowthReturned(<<"aov_growth_pct">>, l.aov_cur.num, l.aov_cur.den,
                               l.aov_comp.num, l.aov_comp.den)
            /\ V(rev_m).raised = "" =>
                /\ V(rev_m).value[<<"current_year">>] = years[1]
                /\ V(rev_m).value[<<"comparison_year">>] = years[2]
                /\ V(rev_m).value[<<"total_revenue_", years[1]>>] = Some(l.rev_cur)
                /\ V(rev_m).value[<<"total_revenue_", years[2]>>] = Some(l.rev_comp)
                /\ V(rev_m).value[<<"total_orders_", years[1]>>] = l.orders_cur
                /\ V(rev_m).value[<<"total_orders_", years[2]>>] = l.orders_comp

\* the part of C6 the code satisfies: the same, whenever the comparison revenue is
\* not zero (then no growth is None and nothing is raised)
C6_GrowthWhenComparisonRevenueNonZero ==
    (rev_m # None /\ V(rev_locals).rev_comp # 0) => C6_GrowthWheneverComparisonNonZero

----------------------------------------------------------------------------
(* Properties of calculate_monthly_revenue (SpecMonthly) *)

\* the revenue of the sales rows of calendar month m
RevenueOfMonth(rows, m) ==
    ColumnSum(SelectSeq(rows, LAMBDA r : r["purchase_month"] = Some(m)), "price")

IsFinite(a) == a.den # 0

\* C7: mom_growth_pct of a month is 100 * (rev(m) - rev(m-1)) / rev(m-1), for rev(m-1)
\* the revenue of the calendar month just before it (no number when that revenue is
\* zero), also when some calendar months have no sales rows; the earliest month has
\* no growth value.
C7_GrowthOverPrecedingCalendarMonth ==
    monthly # None =>
        \A j \in 1..Len(V(monthly)) :
            LET r    == V(monthly)[j]
                prev == RevenueOfMonth(sales_cur, r.purchase_month - 1)
            IN  IF j = 1 THEN QIsNaN(r.mom_growth_pct)
                ELSE IF prev # 0
                     THEN IsRatio(r.mom_growth_pct, 100 * (r.revenue - prev), prev)
                     ELSE ~IsFinite(r.mom_growth_pct)

\* what the code computes: the growth over the month of the row before, whichever
\* calendar month that is
C7_GrowthOverPreviousRow ==
    monthly # None =>
        \A j \in 1..Len(V(monthly)) :
            LET r == V(monthly)[j]
            IN  IF j = 1 THEN QIsNaN(r.mom_growth_pct)
                ELSE LET prev == RevenueOfMonth(sales_cur, V(monthly)[j - 1].purchase_month)
                     IN  /\ V(monthly)[j - 1].purchase_month < r.purchase_month
                         /\ IF prev # 0
                            THEN IsRatio(r.mom_growth_pct, 100 * (r.revenue - prev), prev)
                            ELSE ~IsFinite(r.mom_growth_pct)

----------------------------------------------------------------------------
(* Properties of calculate_product_metrics (SpecProduct) *)

\* rows [key, revenue, ...] hold one row per value of col that is not missing, with
\* the sum of its prices, and revenue does not increase down the table
OneRowPerKeyByRevenue(t, rows, col) ==
    /\ Len(t) = Cardinality(GroupKeys(rows, col))
    /\ {t[j][col] : j \in 1..Len(t)} = GroupKeys(rows, col)
    /\ \A j \in 1..Len(t) :
        t[j].revenue = ColumnSum(SelectSeq(rows, LAMBDA r : r[col] = t[j][col]), "price")
    /\ \A i, j \in 1..Len(t) : i < j => t[i].revenue >= t[j].revenue

\* C8: one row per product category, by revenue descending, and market_share_pct is
\* the category's revenue as a percentage of the total revenue of the rows passed in,
\* also when some rows have no category; the shares add up to 100% up to rounding.
C8_ShareOfInputRevenue ==
    prod_m # None =>
        LET t     == V(prod_m)
            total == ColumnSum(sales_cur, "price")
        IN  /\ OneRowPerKeyByRevenue(t, sales_cur, "product_category_name")
            /\ total # 0 =>
                /\ \A j \in 1..Len(t) :
                    IsRounded(t[j].market_share_pct, 100 * t[j].revenue, total)
                /\ 2 * Abs(SumSeq([j \in 1..Len(t) |-> V(t[j].market_share_pct)]) - 10000)
                        <= Len(t)

\* what the code computes: the share of the revenue of the rows that have a category
C8_ShareOfCategorisedRevenue ==
    prod_m # None =>
        LET t     == V(prod_m)
            total == ColumnSum(SelectSeq(sales_cur,
                                         LAMBDA r : r["product_category_name"] # NaN), "price")
        IN  /\ OneRowPerKeyByRevenue(t, sales_cur, "product_category_name")
            /\ \A j \in 1..Len(t) :
                IF total = 0 THEN t[j].market_share_pct = NaN
                ELSE IsRounded(t[j].market_share_pct, 100 * t[j].revenue, total)

----------------------------------------------------------------------------
(* Properties of calculate_geographic_metrics (SpecGeo) *)

\* the number of distinct order ids among the rows of state st
OrdersOfState(rows, st) ==
    Cardinality({rows[i]["order_id"] : i \in {k \in 1..Len(rows) : rows[k]["customer_state"] = st}})

\* one row per customer state, by revenue descending, with the state's price sum and
\* its number of distinct orders
GeoRowsRight(t, rows) ==
    /\ OneRowPerKeyByRevenue(t, rows, "customer_state")
    /\ \A j \in 1..Len(t) : t[j].order_count = OrdersOfState(rows, t[j].customer_state)

\* C9 as stated: ... and aov is revenue divided by order_count.
C9_AovIsExactQuotient ==
    geo_m # None =>
        /\ GeoRowsRight(V(geo_m), sales_cur)
        /\ \A j \in 1..Len(V(geo_m)) :
            LET r == V(geo_m)[j]
            IN  r.aov # NaN /\ V(r.aov) * r.order_count = r.revenue

\* C9, amended: one row per customer state, by revenue descending; revenue is the sum
\* of the item prices of the state, order_count its number of distinct order ids, and
\* aov is revenue divided by order_count, rounded to 2 decimals.
C9_AovIsRoundedQuotient ==
    geo_m # None =>
        /\ GeoRowsRight(V(geo_m), sales_cur)
        /\ \A j \in 1..Len(V(geo_m)) :
            LET r == V(geo_m)[j]
            IN  /\ r.order_count > 0
                /\ r.aov # NaN
                /\ 2 * Abs(V(r.aov) * r.order_count - r.revenue) <= r.order_count

\* a state with three item rows of two orders, whose revenue is no multiple of two
C9_Witness ==
    /\ geo_m # None
    /\ \E j \in 1..Len(V(geo_m)) :
        /\ V(geo_m)[j].order_count = 2
        /\ Len(SelectSeq(sales_cur,
                         LAMBDA r : r["customer_state"] = V(geo_m)[j].customer_state)) = 3
        /\ V(geo_m)[j].revenue % 2 = 1

----------------------------------------------------------------------------
(* Properties of _bucket_delivery (SpecDelivery) *)

\* C10: every order gets exactly one of the four buckets and the label describes the
\* duration: 'unknown' iff delivery_days is missing, '1-3 days' iff 1 <= d <= 3,
\* '4-7 days' iff 4 <= d <= 7, and '8+ days' iff d >= 8, for every d, zero and
\* negative d included.
C10_LabelDescribesDuration ==
    order_level # None =>
        \A i \in 1..Len(V(order_level)) :
            LET d == V(order_level)[i]["delivery_days"]
                b == V(order_level)[i]["delivery_time"]
            IN  /\ b \in {"unknown", "1-3 days", "4-7 days", "8+ days"}
                /\ b = "unknown" <=> IsNa(d)
                /\ b = "1-3 days" <=> (~IsNa(d) /\ 1 <= V(d) /\ V(d) <= 3)
                /\ b = "4-7 days" <=> (~IsNa(d) /\ 4 <= V(d) /\ V(d) <= 7)
                /\ b = "8+ days" <=> (~IsNa(d) /\ V(d) >= 8)

\* what the code computes: the same for d >= 1, and '1-3 days' for every d <= 0
C10_LabelByUpperLimit ==
    order_level # None =>
        \A i \in 1..Len(V(order_level)) :
            LET d == V(order_level)[i]["delivery_days"]
                b == V(order_level)[i]["delivery_time"]
            IN  /\ b \in {"unknown", "1-3 days", "4-7 days", "8+ days"}
                /\ b = "unknown" <=> IsNa(d)
                /\ b = "1-3 days" <=> (~IsNa(d) /\ V(d) <= 3)
                /\ b = "4-7 days" <=> (~IsNa(d) /\ 4 <= V(d) /\ V(d) <= 7)
                /\ b = "8+ days" <=> (~IsNa(d) /\ V(d) >= 8)

----------------------------------------------------------------------------
(* Properties of the bucket summary of calculate_delivery_metrics            *)
(* (SpecDelivery)                                                            *)

\* the buckets that some order of the order-level frame falls in
BucketsInUse == {V(order_level)[i]["delivery_time"] : i \in 1..Len(V(order_level))}

\* the position of a bucket name in the logical order; 'unknown' has none
LogicalRank(b) ==
    IF b = "1-3 days" THEN 1 ELSE IF b = "4-7 days" THEN 2 ELSE IF b = "8+ days" THEN 3 ELSE 4

\* C11: delivery_bucket_summary has one row per bucket in use, its delivery_time is the
\* bucket's name ('unknown' for the orders without a delivery duration), and the rows
\* of '1-3 days', '4-7 days' and '8+ days' come in that order.
C11_OneNamedRowPerBucket ==
    del_m # None =>
        LET t == V(del_m).delivery_bucket_summary
        IN  /\ Len(t) = Cardinality(BucketsInUse)
            /\ {t[j].delivery_time : j \in 1..Len(t)} = {Some(b) : b \in BucketsInUse}
            /\ \A i, j \in 1..Len(t) :
                (i < j /\ t[i].delivery_time # Some("unknown")
                       /\ t[j].delivery_time # Some("unknown"))
                    => LogicalRank(V(t[i].delivery_time)) < LogicalRank(V(t[j].delivery_time))

\* what the code computes: the rows of the three buckets of bucket_order are named and
\* in order, and the row of the orders without a duration comes last with a missing
\* delivery_time
C11_UnknownRowIsUnnamed ==
    del_m # None =>
        LET t     == V(del_m).delivery_bucket_summary
            named == BucketsInUse \ {"unknown"}
            n     == Cardinality(named)
        IN  /\ Len(t) = Cardinality(BucketsInUse)
            /\ {t[j].delivery_time : j \in 1..n} = {Some(b) : b \in named}
            /\ \A i, j \in 1..n :
                i < j => LogicalRank(V(t[i].delivery_time)) < LogicalRank(V(t[j].delivery_time))
            /\ "unknown" \in BucketsInUse => t[Len(t)].delivery_time = NaN

----------------------------------------------------------------------------
(* The derived columns on date-varying files: both orders, their items,      *)
(* customers and product exist once; the text of the purchase date and of    *)
(* the customer delivery date of each order is empty, no date, or a date.    *)

PurchaseDateTexts ==
    {NaN, Some(Ts(2023, 13, 1, 0)), Some(Ts(2023, 1, 10, 22)), Some(Ts(2022, 12, 31, 23))}
DeliveredDateTexts ==
    {NaN, Some(Ts(2023, 2, 30, 0)), Some(Ts(2023, 1, 11, 1)), Some(Ts(2023, 1, 10, 23))}

DateOrderTables ==
    {<<OrderRow("o1", Some("delivered"), p1, d1), OrderRow("o2", Some("shipped"), p2, d2)>> :
        p1 \in PurchaseDateTexts, d1 \in DeliveredDateTexts,
        p2 \in PurchaseDateTexts, d2 \in DeliveredDateTexts}

DateFiles ==
    [orders : DateOrderTables,
     order_items : {<<ItemRow(1, "o1", "p1"), ItemRow(2, "o2", "p1")>>},
     products : {<<ProductRow("p1", CategoryAt(1))>>},
     customers : {<<CustomerRow("c1", StateAt(1), CityAt(1)),
                    CustomerRow("c2", StateAt(2), CityAt(2))>>},
     reviews : {<<ReviewRow("o1", ScoreAt(1))>>}, payments : {<<>>}]

InitDates ==
    /\ files \in DateFiles
    /\ LoaderFresh
    /\ DashboardIdle
    /\ MetricsIdle

NextDates ==
    \/ LoadRawData
    \/ ProcessData
    \/ CreateSalesDataset
    \/ CreateSalesDatasetDefault

SpecDates == InitDates /\ [][NextDates]_vars

----------------------------------------------------------------------------
(* Properties of the derived columns (SpecDates) *)

\* the number of the calendar day of a timestamp
DayNumber(t) == ToHours(t) \div 24

\* C12: for every processed row with both timestamps, delivery_days is the number of
\* calendar days from the purchase date to the delivery date (a purchase late on day D
\* delivered early on day D+1 gives 1), purchase_year and purchase_month are those of
\* the purchase timestamp, and delivery_days is missing when a timestamp is missing.
C12_CalendarDays ==
    processed # None =>
        \A i \in 1..Len(V(processed).rows) :
            LET r == V(processed).rows[i]
                p == r["order_purchase_timestamp"]
                d == r["order_delivered_customer_date"]
            IN  /\ (p # NaN /\ d # NaN) =>
                    /\ r["delivery_days"] = Some(DayNumber(V(d)) - DayNumber(V(p)))
                    /\ r["purchase_year"] = Some(V(p).year)
                    /\ r["purchase_month"] = Some(V(p).month)
                /\ (p = NaN \/ d = NaN) => r["delivery_days"] = NaN

\* what the code computes: the number of whole 24-hour periods between the two
\* timestamps
C12_WholePeriodsElapsed ==
    processed # None =>
        \A i \in 1..Len(V(processed).rows) :
            LET r == V(processed).rows[i]
                p == r["order_purchase_timestamp"]
                d == r["order_delivered_customer_date"]
            IN  /\ (p # NaN /\ d # NaN) =>
                    /\ r["delivery_days"] # NaN
                    /\ 24 * V(r["delivery_days"]) <= ToHours(V(d)) - ToHours(V(p))
                    /\ ToHours(V(d)) - ToHours(V(p)) < 24 * (V(r["delivery_days"]) + 1)
                    /\ r["purchase_year"] = Some(V(p).year)
                    /\ r["purchase_month"] = Some(V(p).month)
                /\ (p = NaN \/ d = NaN) => r["delivery_days"] = NaN

----------------------------------------------------------------------------
(* Properties of the order level of calculate_delivery_metrics (SpecDelivery) *)

\* the distinct order ids of the sales rows
OrdersOf(rows) == {rows[i]["order_id"] : i \in 1..Len(rows)}

\* the first sales row of an order
FirstRowOf(rows, oid) ==
    rows[CHOOSE i \in 1..Len(rows) :
            rows[i]["order_id"] = oid /\ \A j \in 1..(i - 1) : rows[j]["order_id"] # oid]

\* h is the mean, over the orders that have a value in col, of the order's value,
\* rounded to a multiple of 1/scale; missing when no order has a value
IsMeanOverOrders(h, rows, col, scale) ==
    LET has == {o \in OrdersOf(rows) : FirstRowOf(rows, o)[col] # NaN}
        val == [o \in has |-> V(FirstRowOf(rows, o)[col])]
        n   == Cardinality(has)
    IN  IF n = 0 THEN h = NaN
        ELSE h # NaN /\ 2 * Abs(V(h) * n - scale * SumOver(val, has)) <= n

\* C13: an order with any number of item rows counts once in avg_delivery_days, in
\* avg_review_score and in the order_count of its bucket, and the order_count values of
\* the summary rows add up to the number of distinct order ids of the input.
C13_EachOrderCountsOnce ==
    del_m # None =>
        LET t == V(del_m).delivery_bucket_summary
        IN  /\ IsMeanOverOrders(V(del_m).avg_delivery_days, sales_cur, "delivery_days", 10)
            /\ IsMeanOverOrders(V(del_m).avg_review_score, sales_cur, "review_score", 100)
            /\ \A j \in 1..Len(t) :
                t[j].delivery_time # NaN =>
                    t[j].order_count =
                        Cardinality({o \in OrdersOf(sales_cur) :
                            _bucket_delivery(FirstRowOf(sales_cur, o)["delivery_days"])
                                = V(t[j].delivery_time)})
            /\ SumSeq([j \in 1..Len(t) |-> t[j].order_count])
                    = Cardinality(OrdersOf(sales_cur))

\* an order of two item rows that has a duration and a score
C13_Witness ==
    /\ del_m # None
    /\ Len(sales_cur) = 2
    /\ Cardinality(OrdersOf(sales_cur)) = 1
    /\ sales_cur[1]["delivery_days"] # NaN
    /\ sales_cur[1]["review_score"] # NaN
    /\ Len(V(del_m).delivery_bucket_summary) = 1
    /\ V(del_m).delivery_bucket_summary[1].order_count = 1

----------------------------------------------------------------------------
(* Properties of invalid dates (SpecDates) *)

\* text that is present and is no date
Unparseable(cell) == cell # NaN /\ ~ValidDate(V(cell))

\* the row of orders_dataset.csv of an order id
FileOrderOf(oid) ==
    files.orders[CHOOSE j \in 1..Len(files.orders) : files.orders[j]["order_id"] = Some(oid)]

OrderDateCols == DATETIME_COLS("orders") \cap ColumnsOf("orders")

\* every unparseable date of the orders file is a missing timestamp in raw
CoercedOnLoad ==
    DOMAIN raw # {} =>
        \A j \in 1..Len(files.orders) : \A c \in OrderDateCols :
            Unparseable(files.orders[j][c]) => raw["orders"].rows[j][c] = NaN

\* the processed row r is in the frame last returned
Returned(r) ==
    \E k \in 1..Len(V(lastReturn).rows) :
        V(lastReturn).rows[k]["order_item_id"] = r["order_item_id"]

\* a processed row whose date is invalid is left out of every result with a year or a
\* month filter, and with neither it is returned when its status passes the status
\* filter
ExcludedByDateFilters(r) ==
    IF V(lastReturn).year_filter # None \/ V(lastReturn).month_filter # None
    THEN ~Returned(r)
    ELSE Returned(r) <=> Passes(r, "order_status", V(lastReturn).status_filter)

\* C14 as stated: an unparseable value of a designated date column becomes a missing
\* timestamp on load, the purchase_year, purchase_month and delivery_days of such a row
\* are missing, and the row is left out of every create_sales_dataset result with a
\* year or month filter and kept when both are None.
C14_AnyInvalidDateNullsTheRow ==
    /\ CoercedOnLoad
    /\ processed # None =>
        \A i \in 1..Len(V(processed).rows) :
            LET r == V(processed).rows[i]
            IN  (\E c \in OrderDateCols : Unparseable(FileOrderOf(V(r["order_id"]))[c])) =>
                    /\ r["purchase_year"] = NaN
                    /\ r["purchase_month"] = NaN
                    /\ r["delivery_days"] = NaN
                    /\ lastReturn # None => ExcludedByDateFilters(r)

\* C14, amended: an unparseable value of a designated date column becomes a missing
\* timestamp on load; a row whose order_purchase_timestamp is unparseable has a missing
\* purchase_year, purchase_month and delivery_days, is left out of every result with a
\* year or month filter and, with neither, is kept when its status passes the status
\* filter; a row whose order_delivered_customer_date is unparseable has a missing
\* delivery_days and the year and month of its purchase.
C14_InvalidPurchaseDateNullsTheRow ==
    /\ CoercedOnLoad
    /\ processed # None =>
        \A i \in 1..Len(V(processed).rows) :
            LET r == V(processed).rows[i]
                o == FileOrderOf(V(r["order_id"]))
            IN  /\ Unparseable(o["order_purchase_timestamp"]) =>
                    /\ r["purchase_year"] = NaN
                    /\ r["purchase_month"] = NaN
                    /\ r["delivery_days"] = NaN
                    /\ lastReturn # None => ExcludedByDateFilters(r)
                /\ Unparseable(o["order_delivered_customer_date"]) =>
                    /\ r["delivery_days"] = NaN
                    /\ ~Unparseable(o["order_purchase_timestamp"]) =>
                        /\ r["purchase_year"] = DtYear(o["order_purchase_timestamp"])
                        /\ r["purchase_month"] = DtMonth(o["order_purchase_timestamp"])

\* a result with a year filter that leaves out a row with an unparseable purchase date
\* whose status passes, and returns another row
C14_Witness ==
    /\ lastReturn # None
    /\ processed # None
    /\ V(lastReturn).year_filter # None
    /\ Len(V(lastReturn).rows) > 0
    /\ \E i \in 1..Len(V(processed).rows) :
        LET r == V(processed).rows[i]
        IN  /\ Unparseable(FileOrderOf(V(r["order_id"]))["order_purchase_timestamp"])
            /\ Passes(r, "order_status", V(lastReturn).status_filter)
            /\ ~Returned(r)

----------------------------------------------------------------------------
(* dashboard.py: one run of the script *)

\* a datetime.date
Date(y, m, d) == [year |-> y, month |-> m, day |-> d]

\* pd.Timestamp(date): midnight at the start of the date
Timestamp(d) == Ts(d.year, d.month, d.day, 0)

\* Timestamp.date()
DateOf(t) == Date(t.year, t.month, t.day)

\* the order of two timestamps
Before(a, b) == ToHours(a) <= ToHours(b)

\* load_and_process_data(data_path): a new loader and its process_data()
load_and_process_data(fs) == process_data(EmptyDict, fs)

\* the purchase timestamps of the processed table that are not missing
PurchaseStamps(df) ==
    {V(df.rows[i]["order_purchase_timestamp"]) :
        i \in {k \in 1..Len(df.rows) : df.rows[k]["order_purchase_timestamp"] # NaN}}

\* the dates the widget lets the user pick: those from _min_date to _max_date
Pickable(df, d) ==
    /\ \E t \in PurchaseStamps(df) : Before(Timestamp(DateOf(t)), Timestamp(d))
    /\ \E t \in PurchaseStamps(df) : Before(Timestamp(d), Timestamp(DateOf(t)))

\* the default window of the script
DefaultStart == Date(2023, 1, 1)
DefaultEnd == Date(2023, 12, 31)

\* lines 115-126 for a tuple: two dates, one date (mid-selection), or none
ParseRange(range) ==
    IF Len(range) = 2
    THEN [start_dt |-> Timestamp(range[1]), end_dt |-> Timestamp(range[2])]
    ELSE IF Len(range) = 1
    THEN [start_dt |-> Timestamp(range[1]), end_dt |-> Timestamp(range[1])]
    ELSE [start_dt |-> Timestamp(DefaultStart), end_dt |-> Timestamp(DefaultEnd)]

\* Timestamp.replace(year=y): None stands for the ValueError of a day that year lacks
ReplaceYear(t, y) ==
    IF ValidDate([t EXCEPT !.year = y]) THEN Some([t EXCEPT !.year = y]) ELSE None

\* (variant) a year earlier without clipping the day
MinusOneYearUnclipped(t) == [t EXCEPT !.year = t.year - 1]

\* t - pd.DateOffset(years=1): the same month a year earlier, the day clipped to the
\* length of that month
MinusOneYear(t) ==
    LET last == DaysInMonth(t.year - 1, t.month)
    IN  [t EXCEPT !.year = t.year - 1, !.day = IF t.day > last THEN last ELSE t.day]

\* lines 129-134: both endpoints by replace, or both by DateOffset when one raises
ComparisonWindow(s, e) ==
    LET a == ReplaceYear(s, s.year - 1)
        b == ReplaceYear(e, e.year - 1)
    IN  IF a # None /\ b # None
        THEN [comp_start |-> V(a), comp_end |-> V(b)]
        ELSE [comp_start |-> MinusOneYear(s), comp_end |-> MinusOneYear(e)]

\* _filter(df, s, e): the rows of the returned frame
_filter(df, s, e) ==
    SelectSeq(df.rows,
              LAMBDA r : /\ r["order_purchase_timestamp"] # NaN
                         /\ Before(s, V(r["order_purchase_timestamp"]))
                         /\ Before(V(r["order_purchase_timestamp"]), e)
                         /\ r["order_status"] = Some("delivered"))

\* (variant) a script without the empty-selection guard
NeverStops(cur) == FALSE

\* line 153: sales_cur.empty
EmptySelection(cur) == Len(cur) = 0

\* trend_html(pct): the badge, by its text or its CSS class
trend_html(pct) ==
    IF pct = None \/ pct = NaN THEN "No comparison data"
    ELSE IF V(pct) >= 0 THEN "trend-up" ELSE "trend-down"

(* The files of a dashboard run: two orders of one item each, whose status   *)
(* and purchase moment vary; the first order was delivered, the second has  *)
(* no delivery date.                                                        *)
PurchaseMoments ==
    {Ts(2023, 2, 28, 9), Ts(2024, 2, 29, 0), Ts(2024, 2, 29, 22), Ts(2024, 3, 1, 10)}

DashStatuses == {Some("delivered"), Some("shipped")}

DashOrderTables ==
    {<<OrderRow("o1", s1, Some(p1), Some(Ts(2024, 3, 5, 12))), OrderRow("o2", s2, Some(p2), NaN)>> :
        s1 \in DashStatuses, p1 \in PurchaseMoments, s2 \in DashStatuses, p2 \in PurchaseMoments}

DashFiles ==
    [orders : DashOrderTables,
     order_items : {<<ItemRow(1, "o1", "p1"), ItemRow(2, "o2", "p1")>>},
     products : {<<ProductRow("p1", CategoryAt(1))>>},
     customers : {<<CustomerRow("c1", StateAt(1), CityAt(1)),
                    CustomerRow("c2", StateAt(2), CityAt(2))>>},
     reviews : {<<ReviewRow("o1", ScoreAt(1))>>}, payments : {<<>>}]

\* the dates a user may click
Dates == {Date(2023, 2, 28), Date(2024, 2, 28), Date(2024, 2, 29), Date(2024, 3, 1)}

\* the values of the date-range widget: no date, one date, or a start and an end
Selections ==
    {<<>>} \cup {<<d>> : d \in Dates}
           \cup {<<a, b>> : a, b \in Dates}

\* line 97: loader, processed = load_data()
LoadData ==
    /\ pc = "start"
    /\ LET self == load_and_process_data(files)
       IN  /\ raw' = self.raw
           /\ processed' = self.processed
           /\ effects' = self.effects
    /\ pc' = "loaded"
    /\ UNCHANGED <<files, sales, lastReturn, metricVars, date_range, start_dt, end_dt,
                   comp_start, comp_end, warning, badges>>

\* lines 107-112: the user's selection in st.date_input, within the dates of the data
DateInput ==
    /\ pc = "loaded"
    /\ \E sel \in Selections :
        /\ \A i \in 1..Len(sel) : Pickable(V(processed), sel[i])
        /\ Len(sel) = 2 => Before(Timestamp(sel[1]), Timestamp(sel[2]))
        /\ date_range' = sel
    /\ pc' = "picked"
    /\ UNCHANGED <<loaderVars, metricVars, start_dt, end_dt, comp_start, comp_end, warning,
                   badges>>

\* lines 115-126
ParseDateRange ==
    /\ pc = "picked"
    /\ start_dt' = Some(ParseRange(date_range).start_dt)
    /\ end_dt' = Some(ParseRange(date_range).end_dt)
    /\ pc' = "parsed"
    /\ UNCHANGED <<loaderVars, metricVars, date_range, comp_start, comp_end, warning, badges>>

\* lines 129-137
ComparisonPeriod ==
    /\ pc = "parsed"
    /\ comp_start' = Some(ComparisonWindow(V(start_dt), V(end_dt)).comp_start)
    /\ comp_end' = Some(ComparisonWindow(V(start_dt), V(end_dt)).comp_end)
    /\ years' = <<V(end_dt).year, V(end_dt).year - 1>>
    /\ pc' = "compared"
    /\ UNCHANGED <<loaderVars, sales_cur, sales_comp, rev_m, rev_locals, monthly, prod_m,
                   geo_m, del_m, order_level, date_range, start_dt, end_dt, warning, badges>>

\* lines 150-151
FilterWindows ==
    /\ pc = "compared"
    /\ sales_cur' = _filter(V(processed), V(start_dt), V(end_dt))
    /\ sales_comp' = _filter(V(processed), V(comp_start), V(comp_end))
    /\ pc' = "filtered"
    /\ UNCHANGED <<loaderVars, years, rev_m, rev_locals, monthly, prod_m, geo_m, del_m,
                   order_level, date_range, start_dt, end_dt, comp_start, comp_end, warning,
                   badges>>

\* lines 153-159: warn and stop on an empty selection; an empty comparison set stays
\* an empty frame
EmptySelectionGuard ==
    /\ pc = "filtered"
    /\ IF EmptySelection(sales_cur)
       THEN warning' = TRUE /\ pc' = "stopped"
       ELSE warning' = warning /\ pc' = "guarded"
    /\ UNCHANGED <<loaderVars, metricVars, date_range, start_dt, end_dt, comp_start, comp_end,
                   badges>>

\* line 163: an exception ends the run
RunRevenueMetrics ==
    /\ pc = "guarded"
    /\ rev_m' = Some(calculate_revenue_metrics(sales_cur, sales_comp, years[1], years[2]))
    /\ rev_locals' = Some(RevenueLocals(sales_cur, sales_comp))
    /\ pc' = IF V(rev_m').raised = "" THEN "revenue" ELSE "failed"
    /\ UNCHANGED <<loaderVars, sales_cur, sales_comp, years, monthly, prod_m, geo_m, del_m,
                   order_level, date_range, start_dt, end_dt, comp_start, comp_end, warning,
                   badges>>

\* line 164
RunMonthlyRevenue ==
    /\ pc = "revenue"
    /\ monthly' = Some(calculate_monthly_revenue(sales_cur))
    /\ pc' = "monthly"
    /\ UNCHANGED <<loaderVars, sales_cur, sales_comp, years, rev_m, rev_locals, prod_m,
                   geo_m, del_m, order_level, date_range, start_dt, end_dt, comp_start,
                   comp_end, warning, badges>>

\* line 165
RunProductMetrics ==
    /\ pc = "monthly"
    /\ \E order \in DescendingOrders(GroupKeys(sales_cur, "product_category_name"),
                                     GroupBySum(sales_cur, "product_category_name", "price")) :
            prod_m' = Some(calculate_product_metrics(sales_cur, order))
    /\ pc' = "product"
    /\ UNCHANGED <<loaderVars, sales_cur, sales_comp, years, rev_m, rev_locals, monthly,
                   geo_m, del_m, order_level, date_range, start_dt, end_dt, comp_start,
                   comp_end, warning, badges>>

\* line 166
RunGeographicMetrics ==
    /\ pc = "product"
    /\ \E order \in DescendingOrders(GroupKeys(sales_cur, "customer_state"),
                                     GroupBySum(sales_cur, "customer_state", "price")) :
            geo_m' = Some(calculate_geographic_metrics(sales_cur, order))
    /\ pc' = "geo"
    /\ UNCHANGED <<loaderVars, sales_cur, sales_comp, years, rev_m, rev_locals, monthly,
                   prod_m, del_m, order_level, date_range, start_dt, end_dt, comp_start,
                   comp_end, warning, badges>>

\* line 167
RunDeliveryMetrics ==
    /\ pc = "geo"
    /\ del_m' = Some(calculate_delivery_metrics(sales_cur))
    /\ order_level' = Some(OrderLevel(sales_cur))
    /\ pc' = "delivery"
    /\ UNCHANGED <<loaderVars, sales_cur, sales_comp, years, rev_m, rev_locals, monthly,
                   prod_m, geo_m, date_range, start_dt, end_dt, comp_start, comp_end, warning,
                   badges>>

\* lines 210-215 and the trend badges of the three revenue KPI cards
RenderKpis ==
    /\ pc = "delivery"
    /\ badges' = Some([revenue |-> trend_html(V(rev_m).value[<<"revenue_growth_pct">>]),
                       aov     |-> trend_html(V(rev_m).value[<<"aov_growth_pct">>]),
                       orders  |-> trend_html(V(rev_m).value[<<"order_growth_pct">>])])
    /\ pc' = "rendered"
    /\ UNCHANGED <<loaderVars, metricVars, date_range, start_dt, end_dt, comp_start, comp_end,
                   warning>>

InitDashboard ==
    /\ files \in DashFiles
    /\ LoaderFresh
    /\ MetricsIdle
    /\ pc = "start"
    /\ date_range = <<>>
    /\ start_dt = None
    /\ end_dt = None
    /\ comp_start = None
    /\ comp_end = None
    /\ warning = FALSE
    /\ badges = None

NextDashboard ==
    \/ LoadData
    \/ DateInput
    \/ ParseDateRange
    \/ ComparisonPeriod
    \/ FilterWindows
    \/ EmptySelectionGuard
    \/ RunRevenueMetrics
    \/ RunMonthlyRevenue
    \/ RunProductMetrics
    \/ RunGeographicMetrics
    \/ RunDeliveryMetrics
    \/ RenderKpis

SpecDashboard == InitDashboard /\ [][NextDashboard]_vars

----------------------------------------------------------------------------
(* Properties of a dashboard run (SpecDashboard) *)

\* the script has passed the empty-selection guard
PastGuard == pc \in {"guarded", "failed", "revenue", "monthly", "product", "geo", "delivery",
                     "rendered"}

\* the script has filtered the two windows
PastFilter == PastGuard \/ pc \in {"filtered", "stopped"}

NoComparisonBadges ==
    [revenue |-> "No comparison data", aov |-> "No comparison data",
     orders |-> "No comparison data"]

\* C15: when the selected window has delivered orders and the comparison window has
\* none, the run keeps an empty comparison set, calculate_revenue_metrics returns a
\* dict whose growth percentages are None or NaN, nothing fails, and every KPI trend
\* badge reads 'No comparison data'.
C15_EmptyComparisonShowsNoData ==
    (PastGuard /\ Len(sales_cur) > 0 /\ Len(sales_comp) = 0) =>
        /\ pc # "failed"
        /\ rev_m # None =>
            /\ V(rev_m).raised = ""
            /\ \A k \in {<<"revenue_growth_pct">>, <<"order_growth_pct">>, <<"aov_growth_pct">>} :
                V(rev_m).value[k] = NaN
        /\ badges # None => V(badges) = NoComparisonBadges

\* what the code does: with an empty comparison set calculate_revenue_metrics raises
\* TypeError, the run ends there and no badge is rendered
C15_EmptyComparisonRaises ==
    (PastGuard /\ Len(sales_cur) > 0 /\ Len(sales_comp) = 0) =>
        /\ pc \in {"guarded", "failed"}
        /\ rev_m # None => V(rev_m).raised = "TypeError"
        /\ badges = None

\* the processed rows with status 'delivered' that satisfy Within
DeliveredRows(Within(_)) ==
    SelectSeq(V(processed).rows,
              LAMBDA r : /\ r["order_status"] = Some("delivered")
                         /\ r["order_purchase_timestamp"] # NaN
                         /\ Within(V(r["order_purchase_timestamp"])))

\* C16: the current sales set holds every 'delivered' row whose purchase timestamp
\* falls on a calendar date from the start date to the end date, at any time of day
\* on the end date, and no other row.
C16_InclusiveOfTheEndDate ==
    PastFilter =>
        sales_cur = DeliveredRows(LAMBDA t : /\ Before(Timestamp(DateOf(V(start_dt))),
                                                       Timestamp(DateOf(t)))
                                             /\ Before(Timestamp(DateOf(t)),
                                                       Timestamp(DateOf(V(end_dt)))))

\* what the code computes: of the end date, only a purchase at midnight is kept
C16_EndDateOnlyAtMidnight ==
    PastFilter =>
        sales_cur = DeliveredRows(LAMBDA t : /\ Before(Timestamp(DateOf(V(start_dt))),
                                                       Timestamp(DateOf(t)))
                                             /\ \/ ToHours(Timestamp(DateOf(t)))
                                                      < ToHours(Timestamp(DateOf(V(end_dt))))
                                                \/ t = Timestamp(DateOf(V(end_dt))))

\* an aggregation function has been called
SomethingComputed ==
    rev_m # None \/ monthly # None \/ prod_m # None \/ geo_m # None \/ del_m # None

\* no delivered row was purchased on a date of the selected window
NoDeliveredOrderInRange ==
    DeliveredRows(LAMBDA t : /\ Before(Timestamp(DateOf(V(start_dt))), Timestamp(DateOf(t)))
                             /\ Before(Timestamp(DateOf(t)), Timestamp(DateOf(V(end_dt)))))
        = <<>>

\* C17: if no delivered order falls in the selected window, the warning is shown and
\* the run stops before any aggregation function is called (no step follows the stop);
\* every aggregation function is called on a current sales set that is not empty.
C17_StopsBeforeAnyAggregation ==
    /\ [](/\ (PastFilter /\ pc # "filtered" /\ Len(sales_cur) = 0) =>
                (pc = "stopped" /\ warning /\ ~SomethingComputed)
          /\ (PastFilter /\ pc # "filtered" /\ NoDeliveredOrderInRange) => pc = "stopped"
          /\ pc = "stopped" => Len(sales_cur) = 0
          /\ SomethingComputed => Len(sales_cur) > 0
          /\ warning => pc = "stopped")
    /\ [][pc # "stopped"]_vars

\* a run over files with a delivered order that has stopped with the warning
C17_Witness ==
    /\ pc = "stopped"
    /\ warning
    /\ Len(date_range) = 2
    /\ \E i \in 1..Len(V(processed).rows) :
        V(processed).rows[i]["order_status"] = Some("delivered")

IsLeapDay(t) == t.month = 2 /\ t.day = 29

\* c is t moved back one year: the same month and day (and time) a year earlier, or,
\* for 29 February, a valid date of the year before in the same month
ShiftedBackOneYear(c, t) ==
    /\ ValidDate(c)
    /\ c.year = t.year - 1
    /\ c.month = t.month
    /\ c.hour = t.hour
    /\ ~IsLeapDay(t) => c.day = t.day

\* C18: the comparison window is the selected window moved back one year, endpoint by
\* endpoint, a 29 February falling back to a valid date, with comp_start <= comp_end;
\* one picked date gives start = end, no selection gives 2023-01-01 to 2023-12-31.
C18_WindowShiftedBackOneYear ==
    /\ (pc \notin {"idle", "start", "loaded", "picked"}) =>
        /\ Len(date_range) = 2 =>
            (V(start_dt) = Timestamp(date_range[1]) /\ V(end_dt) = Timestamp(date_range[2]))
        /\ Len(date_range) = 1 =>
            (V(start_dt) = Timestamp(date_range[1]) /\ V(end_dt) = V(start_dt))
        /\ Len(date_range) = 0 =>
            (V(start_dt) = Ts(2023, 1, 1, 0) /\ V(end_dt) = Ts(2023, 12, 31, 0))
    /\ (pc \notin {"idle", "start", "loaded", "picked", "parsed"}) =>
        /\ ShiftedBackOneYear(V(comp_start), V(start_dt))
        /\ ShiftedBackOneYear(V(comp_end), V(end_dt))
        /\ Before(V(comp_start), V(comp_end))
        /\ years = <<V(end_dt).year, V(end_dt).year - 1>>

\* a window from 28 to 29 February of a leap year, with its comparison window
C18_Witness ==
    /\ pc = "compared"
    /\ V(start_dt) = Ts(2024, 2, 28, 0)
    /\ V(end_dt) = Ts(2024, 2, 29, 0)
    /\ V(comp_start) = Ts(2023, 2, 28, 0)
    /\ V(comp_end) = Ts(2023, 2, 28, 0)

----------------------------------------------------------------------------
(* The loader called through process_data and create_sales_dataset only *)

NextLazy ==
    \/ ProcessData
    \/ CreateSalesDataset
    \/ CreateSalesDatasetDefault

SpecLazy == InitDates /\ [][NextLazy]_vars

----------------------------------------------------------------------------
(* calculate_geographic_metrics and calculate_revenue_metrics on one sales set *)

ComparisonSets == {<<>>, <<[customer_state |-> Some("SP"), order_id |-> Some("o1"),
                          price |-> Some(1)]>>}

InitConserved ==
    /\ files = NoFiles
    /\ LoaderFresh
    /\ DashboardIdle
    /\ sales_cur \in SeqsUpTo(GeoRows, 0, MaxRows)
    /\ sales_comp \in ComparisonSets
    /\ years = <<2023, 2022>>
    /\ NothingComputed

NextConserved ==
    \/ CalculateGeographicMetrics
    \/ CalculateRevenueMetrics

SpecConserved == InitConserved /\ [][NextConserved]_vars

\* every order of the rows has one customer state, and no state is missing
OneStatePerOrder(rows) ==
    /\ \A i \in 1..Len(rows) : rows[i]["customer_state"] # NaN
    /\ \A i, j \in 1..Len(rows) :
        rows[i]["order_id"] = rows[j]["order_id"]
            => rows[i]["customer_state"] = rows[j]["customer_state"]

\* C20: for a sales set in which every order has one state and no state is missing,
\* the order_count values of calculate_geographic_metrics add up to the number of
\* distinct order ids and its revenue values to the total price of the set, and these
\* are the totals of calculate_revenue_metrics for the same set.
C20_StatesConserveTotals ==
    (geo_m # None /\ OneStatePerOrder(sales_cur)) =>
        LET t      == V(geo_m)
            orders == SumSeq([j \in 1..Len(t) |-> t[j].order_count])
            rev    == SumSeq([j \in 1..Len(t) |-> t[j].revenue])
        IN  /\ orders = Cardinality(OrdersOf(sales_cur))
            /\ rev = ColumnSum(sales_cur, "price")
            /\ rev_m # None =>
                /\ V(rev_locals).orders_cur = orders
                /\ V(rev_locals).rev_cur = rev
                /\ V(rev_m).raised = "" =>
                    /\ V(rev_m).value[<<"total_orders_", years[1]>>] = orders
                    /\ V(rev_m).value[<<"total_revenue_", years[1]>>] = Some(rev)

\* two states, one of them with an order of two item rows, and both functions have
\* returned
C20_Witness ==
    /\ geo_m # None
    /\ rev_m # None
    /\ V(rev_m).raised = ""
    /\ OneStatePerOrder(sales_cur)
    /\ Len(sales_cur) = 3
    /\ Len(V(geo_m)) = 2
    /\ Cardinality(OrdersOf(sales_cur)) = 2
    /\ ColumnSum(sales_cur, "price") > 0
====
